---- MODULE Spec2Model ----
(***************************************************************************)
(* Bingo-hall backend: the account store (owner, agents, login), the game  *)
(* session engine (create, call, finish, settle) and the cartela registry, *)
(* as request handlers running against a shared store.  Every handler is   *)
(* an async function: the code between two awaited store queries is one    *)
(* atomic step, and the steps of different requests interleave freely.     *)
(*                                                                         *)
(* src/server.js lines 1-400 is the current PostgreSQL server; the routes  *)
(* it does not define (start, finish, end) or registers behind a gateway   *)
(* that never lets a request through (the agents routes) are taken from    *)
(* the earlier PostgreSQL server in src/unnamed/part_001 as well.          *)
(***************************************************************************)
EXTENDS Integers, Sequences, FiniteSets, TLC

VARIABLES users, nextUserId, tokens, games, cartelas, nextGameId, req

vars == <<users, nextUserId, tokens, games, cartelas, nextGameId, req>>

(* ------------------------------ bounds --------------------------------- *)

\* request slots: how many requests can be in flight at once
MaxReqs == 2

\* rows the games table receives in one run (the serial id stops there)
MaxGames == 2

\* rows of the cartelas table (created administratively, never deleted)
NumCartelas == 2

\* rows the users table holds in one run (the serial id stops there)
MaxUsers == 4

Reqs == 1..MaxReqs
SeqReqs == {1}
CartelaIds == 1..NumCartelas

(* --------------------------- JSON bodies ------------------------------- *)

\* A request body is a function from the keys it carries to their values;
\* a key that is not in its domain reads as undefined.
Has(b, f) == f \in DOMAIN b

\* JavaScript truthiness of a numeric body field: undefined and 0 are falsy
Truthy(b, f) == Has(b, f) /\ b[f] # 0

\* JavaScript truthiness of a string body field: undefined and "" are falsy
TruthyStr(b, f) == Has(b, f) /\ b[f] # ""

Range(s) == {s[i] : i \in DOMAIN s}

EmptyBody == [x \in {} |-> 0]

(* ------------------------------ inputs --------------------------------- *)

\* Bodies of POST /api/games and POST /api/games/start.  The cases: a plain
\* valid game, a game over both cartelas, zero pot and fee, a negative pot
\* and fee, a body without players, a body without entryfee, and a body
\* that carries settlement fields of its own.
GameBodies ==
  { [players |-> 1, pot |-> 2, entryfee |-> 1, cartelas |-> <<1>>],
    [players |-> 1, pot |-> 2, entryfee |-> 1, cartelas |-> <<1, 2>>],
    [players |-> 1, pot |-> 0, entryfee |-> 0],
    [players |-> 1, pot |-> -1, entryfee |-> -1],
    [pot |-> 2, entryfee |-> 1],
    [players |-> 1, pot |-> 2],
    [players |-> 1, pot |-> 2, entryfee |-> 1, winnermoney |-> 3, profit |-> 5] }

\* Bodies of the games a settlement is tried on
SettleBodies == { [players |-> 1, pot |-> 2, entryfee |-> 1] }

\* Bodies of POST /api/games/:id/end
EndBodies ==
  { EmptyBody, [winnerMoney |-> 0], [winnerMoney |-> 1], [winnerMoney |-> 3] }

\* Bodies of POST /api/games/:id/finish
FinishBodies == { EmptyBody, [numbers |-> <<5>>, status |-> "in-progress"] }

\* Bodies of POST /api/games/:id/called: no numbers, nothing called yet, one
\* number, the same number twice, two numbers
CalledBodies ==
  { EmptyBody, [numbers |-> <<>>], [numbers |-> <<5>>], [numbers |-> <<5, 5>>],
    [numbers |-> <<7, 5>>] }

\* Bodies of POST /api/create-first-owner and POST /api/agents/create: the
\* seeded owner's phone, the seeded agent's phone, two new phones, an empty
\* phone, no password, nothing
AccountBodies ==
  { [phone |-> "0911", password |-> "pw", name |-> "owner"],
    [phone |-> "0922", password |-> "pw", name |-> "other"],
    [phone |-> "0933", password |-> "pw"],
    [phone |-> "0944", password |-> "pw", name |-> "fourth"],
    [phone |-> "", password |-> "pw"],
    [phone |-> "0933"],
    EmptyBody }

\* Bodies of POST /api/login: the seeded agent with the right password and
\* with a wrong one, an unknown phone, no password, nothing
LoginBodies ==
  { [phone |-> "0922", password |-> "pw"],
    [phone |-> "0922", password |-> "bad"],
    [phone |-> "0999", password |-> "pw"],
    [phone |-> "0922"],
    EmptyBody }

\* The :id path parameter of the agents routes
UserPathIds == 1..MaxUsers

\* The :id path parameter: every id the serial can hand out, and one more
PathIds == 1..(MaxGames + 1)

\* Authorization headers: none, or a bearer token with a payload.  A token
\* verifies when its payload is one the server signed.
NoCred == [hdr |-> "absent", id |-> 0, role |-> ""]
Bearer(id, role) == [hdr |-> "bearer", id |-> id, role |-> role]
Creds == {NoCred, Bearer(0, "agent"), Bearer(1, "owner"), Bearer(2, "agent")}

\* "Bearer" with nothing after it: there is no token to verify
Malformed == [hdr |-> "malformed", id |-> 0, role |-> ""]

\* a header of another scheme ("Token <jwt>") that carries a signed token
OtherScheme(id, role) == [hdr |-> "other", id |-> id, role |-> role]

\* every kind of header the gateway meets
GatewayCreds == Creds \cup {Malformed, OtherScheme(1, "owner")}

\* what the callers of the called route present: nothing, or an agent's token
CalledCreds == {NoCred, Bearer(2, "agent")}

(* --------------------------- the user store ---------------------------- *)

\* bcrypt.hash(password, 10): a salted one-way hash, which only
\* bcrypt.compare relates to a password again
BcryptHash(password) == <<"$2b$10$", password>>

BcryptCompare(password, hash) == hash = BcryptHash(password)

OwnerRow ==
  [phone |-> "0911", passwordhash |-> BcryptHash("pw"), role |-> "owner",
   name |-> "owner", isactive |-> TRUE]
AgentRow ==
  [phone |-> "0922", passwordhash |-> BcryptHash("pw"), role |-> "agent",
   name |-> "agent", isactive |-> TRUE]

\* The users table as the game engine finds it: the agent's account alone,
\* or the owner's and the agent's.
SeedUsers == { (2 :> AgentRow), (1 :> OwnerRow) @@ (2 :> AgentRow) }

\* jwt.sign payloads of the sessions opened for the seeded accounts
SeedTokens(u) == {[id |-> i, role |-> u[i].role] : i \in DOMAIN u}

\* the users.id serial has handed out the seeded ids
FirstFreeUserId == Cardinality(UNION {DOMAIN u : u \in SeedUsers}) + 1

Owners == {i \in DOMAIN users : users[i].role = "owner"}

Agents == {i \in DOMAIN users : users[i].role = "agent"}

(* ------------------------------ gateway -------------------------------- *)

JwtVerify(cred) == [id |-> cred.id, role |-> cred.role] \in tokens

\* a gateway that also looks the token's account up in the users table
authenticateActive(role, cred) ==
  IF cred.hdr = "absent" THEN 401
  ELSE IF ~JwtVerify(cred) THEN 403
  ELSE IF role # "" /\ cred.role # role THEN 403
  ELSE IF cred.id \notin DOMAIN users THEN 403
  ELSE IF ~users[cred.id].isactive THEN 403
  ELSE 0

\* authenticate(role) of the current server: 0 stands for next()
authenticate(role, cred) ==
  IF cred.hdr = "absent" THEN 401
  ELSE IF ~JwtVerify(cred) THEN 403
  ELSE IF role # "" /\ cred.role # role THEN 403
  ELSE 0

\* authMiddleware(requiredRole) of the earlier server: 0 stands for next()
authMiddleware(requiredRole, cred) ==
  IF cred.hdr # "bearer" THEN 401
  ELSE IF ~JwtVerify(cred) THEN 401
  ELSE IF requiredRole # "" /\ cred.role # requiredRole THEN 403
  ELSE 0

(* ------------------------------ requests ------------------------------- *)

\* A request slot: the operation, where its handler stands (pc), what the
\* request carries (cred, body, path id), the handler's locals (ownerId,
\* gameId, pot, newStatus) and the response (code, err and, for the routes
\* whose payload is modelled, out; code 0 while it runs).
Idle ==
  [op |-> "idle", pc |-> "idle", cred |-> NoCred, body |-> EmptyBody, id |-> 0,
   ownerId |-> 0, gameId |-> 0, pot |-> 0, newStatus |-> FALSE, code |-> 0,
   err |-> "", out |-> EmptyBody]

Respond(r, op, cred, body, id, code, err) ==
  req' = [req EXCEPT ![r] =
            [Idle EXCEPT !.op = op, !.pc = "done", !.cred = cred, !.body = body,
                         !.id = id, !.code = code, !.err = err]]

\* res.json(out): a 200 answer with a payload
RespondWith(r, op, cred, body, id, out) ==
  req' = [req EXCEPT ![r] =
            [Idle EXCEPT !.op = op, !.pc = "done", !.cred = cred, !.body = body,
                         !.id = id, !.code = 200, !.out = out]]

Reply(r, code, err) ==
  req' = [req EXCEPT ![r].pc = "done", ![r].code = code, ![r].err = err]

Init ==
  /\ users \in SeedUsers
  /\ nextUserId = FirstFreeUserId
  /\ tokens = SeedTokens(users)
  /\ games = EmptyBody
  /\ cartelas = [k \in CartelaIds |-> [issued |-> FALSE, gameid |-> <<>>]]
  /\ nextGameId = 1
  /\ req = [r \in Reqs |-> Idle]

(* --------------------- POST /api/games (createGame) -------------------- *)

\* the games.status column is never written by an INSERT: it takes the
\* column default
DefaultStatus == "created"

\* "validate required": !players || !pot || typeof entryfee === "undefined"
CreateGameValid(b) ==
  Truthy(b, "players") /\ Truthy(b, "pot") /\ Has(b, "entryfee")

\* the destructuring defaults of the handler
BodyWinmode(b) ==
  IF Has(b, "winmode") THEN b.winmode
  ELSE IF Has(b, "winMode") THEN b.winMode ELSE "null"

BodyCartelas(b) == IF Has(b, "cartelas") THEN b.cartelas ELSE <<>>

BodyWinnermoney(b) ==
  IF Has(b, "winnermoney") THEN b.winnermoney
  ELSE IF Truthy(b, "winnerMoney") THEN b.winnerMoney ELSE 0

BodyProfit(b) == IF Has(b, "profit") THEN b.profit ELSE 0

\* date = req.body.date || new Date()
BodyDate(b) == IF TruthyStr(b, "date") THEN b.date ELSE "now"

\* games.date is a timestamp column: the store takes a Date or a string that
\* reads as a date and rejects any other
DateParses(date) == date \in {"now", "2024-01-31"}

\* the row INSERT INTO games ... RETURNING * produces
CreateGameRow(agentid, ownerid, b) ==
  [agentid |-> agentid, ownerid |-> ownerid, players |-> b.players,
   pot |-> b.pot, entryfee |-> b.entryfee, winmode |-> BodyWinmode(b),
   cartelas |-> BodyCartelas(b), called |-> <<>>,
   winnermoney |-> BodyWinnermoney(b), profit |-> BodyProfit(b),
   status |-> DefaultStatus, date |-> BodyDate(b)]

\* UPDATE cartelas SET issued = true, gameid = $1 WHERE id = ANY($2)
LinkCartelas(tbl, gameId, ids) ==
  [k \in DOMAIN tbl |->
     IF k \in Range(ids) THEN [issued |-> TRUE, gameid |-> <<gameId>>] ELSE tbl[k]]

\* the gateway turns the request away
CreateGameDenied(r, cred) ==
  /\ req[r].pc = "idle"
  /\ authenticate("agent", cred) # 0
  /\ Respond(r, "createGame", cred, EmptyBody, 0, authenticate("agent", cred), "gateway")
  /\ UNCHANGED <<users, nextUserId, tokens, games, cartelas, nextGameId>>

\* a required field is missing
CreateGameInvalid(r, cred, b) ==
  /\ req[r].pc = "idle"
  /\ authenticate("agent", cred) = 0
  /\ ~CreateGameValid(b)
  /\ Respond(r, "createGame", cred, b, 0, 400, "players, pot and entryfee required")
  /\ UNCHANGED <<users, nextUserId, tokens, games, cartelas, nextGameId>>

\* SELECT id FROM users WHERE role='owner' LIMIT 1 returns no row
CreateGameNoOwner(r, cred, b) ==
  /\ req[r].pc = "idle"
  /\ authenticate("agent", cred) = 0
  /\ CreateGameValid(b)
  /\ Owners = {}
  /\ Respond(r, "createGame", cred, b, 0, 500, "No owner found in database")
  /\ UNCHANGED <<users, nextUserId, tokens, games, cartelas, nextGameId>>

\* ... or returns a row: the handler goes on to the INSERT
CreateGameLookup(r, cred, b) ==
  /\ req[r].pc = "idle"
  /\ authenticate("agent", cred) = 0
  /\ CreateGameValid(b)
  /\ \E o \in Owners :
       req' = [req EXCEPT ![r] =
                 [Idle EXCEPT !.op = "createGame", !.pc = "insert",
                              !.cred = cred, !.body = b, !.ownerId = o]]
  /\ UNCHANGED <<users, nextUserId, tokens, games, cartelas, nextGameId>>

\* INSERT INTO games; with no cartelas selected the response follows at once
CreateGameInsert(r) ==
  /\ req[r].op = "createGame" /\ req[r].pc = "insert"
  /\ DateParses(BodyDate(req[r].body))
  /\ nextGameId <= MaxGames
  /\ games' = games @@
       (nextGameId :> CreateGameRow(req[r].cred.id, req[r].ownerId, req[r].body))
  /\ nextGameId' = nextGameId + 1
  /\ IF Len(BodyCartelas(req[r].body)) > 0
       THEN req' = [req EXCEPT ![r].pc = "link", ![r].gameId = nextGameId]
       ELSE req' = [req EXCEPT ![r].pc = "done", ![r].gameId = nextGameId,
                               ![r].code = 200]
  /\ UNCHANGED <<users, nextUserId, tokens, cartelas>>

\* the INSERT is rejected for its date: the catch block answers 500
CreateGameBadDate(r) ==
  /\ req[r].op = "createGame" /\ req[r].pc = "insert"
  /\ ~DateParses(BodyDate(req[r].body))
  /\ Reply(r, 500, "invalid input syntax for type timestamp")
  /\ UNCHANGED <<users, nextUserId, tokens, games, cartelas, nextGameId>>

\* link the selected cartelas to the game and mark them as used
CreateGameLink(r) ==
  /\ req[r].op = "createGame" /\ req[r].pc = "link"
  /\ cartelas' = LinkCartelas(cartelas, req[r].gameId, BodyCartelas(req[r].body))
  /\ Reply(r, 200, "")
  /\ UNCHANGED <<users, nextUserId, tokens, games, nextGameId>>

\* pool.query rejects in a handler that is past its first query: the catch
\* block answers 500 and nothing is undone
StoreError(r) ==
  /\ req[r].pc \in {"insert", "link", "update", "delete"}
  /\ Reply(r, 500, "store")
  /\ UNCHANGED <<users, nextUserId, tokens, games, cartelas, nextGameId>>

\* the response has been sent; the slot takes the next request
Return(r) ==
  /\ req[r].pc = "done"
  /\ req' = [req EXCEPT ![r] = Idle]
  /\ UNCHANGED <<users, nextUserId, tokens, games, cartelas, nextGameId>>

(* ------------------ POST /api/games/start (earlier server) ------------- *)

\* "fixed owner for now"
FixedOwnerId == 1

\* !players || !pot || !entryfee
StartGameValid(b) ==
  Truthy(b, "players") /\ Truthy(b, "pot") /\ Truthy(b, "entryfee")

StartGameRow(agentid, b) ==
  [agentid |-> agentid, ownerid |-> FixedOwnerId, players |-> b.players,
   pot |-> b.pot, entryfee |-> b.entryfee,
   winmode |-> IF Has(b, "winMode") THEN b.winMode ELSE "null",
   cartelas |-> BodyCartelas(b), called |-> <<>>, winnermoney |-> 0,
   profit |-> 0, status |-> DefaultStatus, date |-> "now"]

StartGameDenied(r, cred) ==
  /\ req[r].pc = "idle"
  /\ authMiddleware("agent", cred) # 0
  /\ Respond(r, "startGame", cred, EmptyBody, 0, authMiddleware("agent", cred), "gateway")
  /\ UNCHANGED <<users, nextUserId, tokens, games, cartelas, nextGameId>>

StartGameInvalid(r, cred, b) ==
  /\ req[r].pc = "idle"
  /\ authMiddleware("agent", cred) = 0
  /\ ~StartGameValid(b)
  /\ Respond(r, "startGame", cred, b, 0, 400, "Missing players, pot or entryFee")
  /\ UNCHANGED <<users, nextUserId, tokens, games, cartelas, nextGameId>>

\* one INSERT, then the response; the cartelas table is not touched
StartGameInsert(r, cred, b) ==
  /\ req[r].pc = "idle"
  /\ nextGameId <= MaxGames
  /\ authMiddleware("agent", cred) = 0
  /\ StartGameValid(b)
  /\ games' = games @@ (nextGameId :> StartGameRow(cred.id, b))
  /\ req' = [req EXCEPT ![r] =
               [Idle EXCEPT !.op = "startGame", !.pc = "done", !.cred = cred,
                            !.body = b, !.gameId = nextGameId, !.code = 200]]
  /\ nextGameId' = nextGameId + 1
  /\ UNCHANGED <<users, nextUserId, tokens, cartelas>>

(* ------------- POST /api/games/:id/called (recordCalledNumbers) -------- *)

\* Array.isArray(numbers): the bodies carry an array or no numbers at all
IsArray(b, f) == Has(b, f)

\* anyone may call: the route has no gateway
RecordCalledInvalid(r, cred, b, id) ==
  /\ req[r].pc = "idle"
  /\ ~IsArray(b, "numbers")
  /\ Respond(r, "recordCalled", cred, b, id, 400, "Numbers must be an array")
  /\ UNCHANGED <<users, nextUserId, tokens, games, cartelas, nextGameId>>

\* the update with the stored sequence extended instead of replaced
CalledAppend(tbl, id, numbers) ==
  IF id \in DOMAIN tbl
    THEN [tbl EXCEPT ![id].called = tbl[id].called \o numbers]
    ELSE tbl

\* UPDATE games SET called = $1 WHERE id = $2
CalledUpdate(tbl, id, numbers) ==
  IF id \in DOMAIN tbl THEN [tbl EXCEPT ![id].called = numbers] ELSE tbl

RecordCalled(r, cred, b, id) ==
  /\ req[r].pc = "idle"
  /\ IsArray(b, "numbers")
  /\ games' = CalledUpdate(games, id, b.numbers)
  /\ Respond(r, "recordCalled", cred, b, id, 200, "Numbers saved successfully")
  /\ UNCHANGED <<users, nextUserId, tokens, cartelas, nextGameId>>

(* ------------------- POST /api/games/:id/finish ------------------------ *)

FinishGameDenied(r, cred) ==
  /\ req[r].pc = "idle"
  /\ authMiddleware("agent", cred) # 0
  /\ Respond(r, "finish", cred, EmptyBody, 0, authMiddleware("agent", cred), "gateway")
  /\ UNCHANGED <<users, nextUserId, tokens, games, cartelas, nextGameId>>

\* the update without its WHERE clause: every game is finished
FinishUpdateAll(tbl, id, b) ==
  [g \in DOMAIN tbl |->
     [tbl[g] EXCEPT !.called = IF Has(b, "numbers") THEN b.numbers ELSE <<>>,
                    !.status = IF Has(b, "status") THEN b.status ELSE "completed"]]

\* UPDATE games SET called=$1, status=$2 WHERE id=$3
FinishUpdate(tbl, id, b) ==
  IF id \in DOMAIN tbl
    THEN [tbl EXCEPT ![id].called = IF Has(b, "numbers") THEN b.numbers ELSE <<>>,
                     ![id].status = IF Has(b, "status") THEN b.status ELSE "completed"]
    ELSE tbl

FinishGame(r, cred, b, id) ==
  /\ req[r].pc = "idle"
  /\ authMiddleware("agent", cred) = 0
  /\ games' = FinishUpdate(games, id, b)
  /\ Respond(r, "finish", cred, b, id, 200, "")
  /\ UNCHANGED <<users, nextUserId, tokens, cartelas, nextGameId>>

(* --------------------- POST /api/games/:id/end ------------------------- *)

EndGameDenied(r, cred) ==
  /\ req[r].pc = "idle"
  /\ authMiddleware("agent", cred) # 0
  /\ Respond(r, "endGame", cred, EmptyBody, 0, authMiddleware("agent", cred), "gateway")
  /\ UNCHANGED <<users, nextUserId, tokens, games, cartelas, nextGameId>>

\* if (!winnerMoney) return 400
EndGameNoMoney(r, cred, b, id) ==
  /\ req[r].pc = "idle"
  /\ authMiddleware("agent", cred) = 0
  /\ ~Truthy(b, "winnerMoney")
  /\ Respond(r, "endGame", cred, b, id, 400, "Winner money required")
  /\ UNCHANGED <<users, nextUserId, tokens, games, cartelas, nextGameId>>

\* SELECT pot FROM games WHERE id=$1 returns no row
EndGameNotFound(r, cred, b, id) ==
  /\ req[r].pc = "idle"
  /\ authMiddleware("agent", cred) = 0
  /\ Truthy(b, "winnerMoney")
  /\ id \notin DOMAIN games
  /\ Respond(r, "endGame", cred, b, id, 404, "Game not found")
  /\ UNCHANGED <<users, nextUserId, tokens, games, cartelas, nextGameId>>

\* ... or returns the game's pot
EndGameSelect(r, cred, b, id) ==
  /\ req[r].pc = "idle"
  /\ authMiddleware("agent", cred) = 0
  /\ Truthy(b, "winnerMoney")
  /\ id \in DOMAIN games
  /\ req' = [req EXCEPT ![r] =
               [Idle EXCEPT !.op = "endGame", !.pc = "update", !.cred = cred,
                            !.body = b, !.id = id, !.pot = games[id].pot]]
  /\ UNCHANGED <<users, nextUserId, tokens, games, cartelas, nextGameId>>

\* an UPDATE that leaves a game that already has a payout as it is
EndUpdateFirstWins(tbl, id, winnerMoney, profit) ==
  IF id \in DOMAIN tbl /\ tbl[id].winnermoney = 0
    THEN [tbl EXCEPT ![id].winnermoney = winnerMoney, ![id].profit = profit]
    ELSE tbl

\* UPDATE games SET winnermoney=$1, profit=$2 WHERE id=$3
EndUpdate(tbl, id, winnerMoney, profit) ==
  IF id \in DOMAIN tbl
    THEN [tbl EXCEPT ![id].winnermoney = winnerMoney, ![id].profit = profit]
    ELSE tbl

EndGameUpdate(r) ==
  /\ req[r].op = "endGame" /\ req[r].pc = "update"
  /\ games' = EndUpdate(games, req[r].id, req[r].body.winnerMoney,
                        req[r].pot - req[r].body.winnerMoney)
  /\ Reply(r, 200, "")
  /\ UNCHANGED <<users, nextUserId, tokens, cartelas, nextGameId>>

(* ----------------------------- accounts -------------------------------- *)

\* name is stored as given, NULL when the body has none
BodyName(b) == IF Has(b, "name") THEN b.name ELSE "null"

\* the row INSERT INTO users (phone, passwordhash, role, name, isactive) adds
UserRow(b, role) ==
  [phone |-> b.phone, passwordhash |-> BcryptHash(b.password), role |-> role,
   name |-> BodyName(b), isactive |-> TRUE]

\* users.phone is unique: the store rejects an INSERT that repeats a phone
PhoneFree(tbl, phone) == \A i \in DOMAIN tbl : tbl[i].phone # phone

\* SELECT ... FROM users WHERE phone=$1 (an undefined phone matches no row)
UsersByPhone(tbl, b) ==
  {i \in DOMAIN tbl : Has(b, "phone") /\ tbl[i].phone = b.phone}

\* RETURNING id, phone, role, name
PublicProfile(id, row) ==
  [id |-> id, phone |-> row.phone, role |-> row.role, name |-> row.name]

\* SELECT * FROM users: the whole row, id included
FullRow(id, row) == [id |-> id] @@ row

\* !phone || !password
AccountValid(b) == TruthyStr(b, "phone") /\ TruthyStr(b, "password")

(* ------------- POST /api/create-first-owner (createOwner) -------------- *)

\* the count test taken for "more than one owner"
OwnerCountAboveOne(tbl) ==
  Cardinality({i \in DOMAIN tbl : tbl[i].role = "owner"}) > 1

\* SELECT COUNT(*) FROM users WHERE role = 'owner', then count > 0
OwnerExists(tbl) ==
  Cardinality({i \in DOMAIN tbl : tbl[i].role = "owner"}) > 0

CreateOwnerInvalid(r, b) ==
  /\ req[r].pc = "idle"
  /\ ~AccountValid(b)
  /\ Respond(r, "createOwner", NoCred, b, 0, 400, "Phone and password required")
  /\ UNCHANGED <<users, nextUserId, tokens, games, cartelas, nextGameId>>

CreateOwnerExists(r, b) ==
  /\ req[r].pc = "idle"
  /\ AccountValid(b)
  /\ OwnerExists(users)
  /\ Respond(r, "createOwner", NoCred, b, 0, 400, "Owner already exists")
  /\ UNCHANGED <<users, nextUserId, tokens, games, cartelas, nextGameId>>

\* the count is 0: the handler goes on to hash the password and INSERT
CreateOwnerCount(r, b) ==
  /\ req[r].pc = "idle"
  /\ AccountValid(b)
  /\ ~OwnerExists(users)
  /\ req' = [req EXCEPT ![r] =
               [Idle EXCEPT !.op = "createOwner", !.pc = "insert", !.body = b]]
  /\ UNCHANGED <<users, nextUserId, tokens, games, cartelas, nextGameId>>

CreateOwnerInsert(r) ==
  /\ req[r].op = "createOwner" /\ req[r].pc = "insert"
  /\ nextUserId <= MaxUsers
  /\ IF PhoneFree(users, req[r].body.phone)
       THEN /\ users' = users @@ (nextUserId :> UserRow(req[r].body, "owner"))
            /\ nextUserId' = nextUserId + 1
            /\ req' = [req EXCEPT ![r].pc = "done", ![r].id = nextUserId,
                                  ![r].code = 200,
                                  ![r].out = [user |-> PublicProfile(
                                     nextUserId, UserRow(req[r].body, "owner"))]]
       ELSE /\ Reply(r, 500, "Failed to create owner")
            /\ UNCHANGED <<users, nextUserId>>
  /\ UNCHANGED <<tokens, games, cartelas, nextGameId>>

(* ------------------- POST /api/login (authenticate) -------------------- *)

\* the handler with the password compared before the block flag is read
LoginCodeCompareFirst(tbl, b) ==
  IF UsersByPhone(tbl, b) = {} THEN 400
  ELSE LET user == tbl[CHOOSE i \in UsersByPhone(tbl, b) : TRUE] IN
    IF ~Has(b, "password") THEN 500
    ELSE IF ~BcryptCompare(b.password, user.passwordhash) THEN 401
    ELSE IF ~user.isactive THEN 403
    ELSE 200

\* the status the handler answers with: no row, a blocked account, a
\* password bcrypt.compare throws on, a wrong password, success
LoginCode(tbl, b) ==
  IF UsersByPhone(tbl, b) = {} THEN 400
  ELSE LET user == tbl[CHOOSE i \in UsersByPhone(tbl, b) : TRUE] IN
    IF ~user.isactive THEN 403
    ELSE IF ~Has(b, "password") THEN 500
    ELSE IF ~BcryptCompare(b.password, user.passwordhash) THEN 401
    ELSE 200

LoginError(code) ==
  CASE code = 400 -> "User not found"
    [] code = 403 -> "Account is blocked"
    [] code = 401 -> "Invalid password"
    [] code = 500 -> "Login failed"
    [] OTHER -> ""

\* jwt.sign({ id, phone, role, name }): the payload the gateway will verify
LoginToken(tbl, b) ==
  LET i == CHOOSE i \in UsersByPhone(tbl, b) : TRUE IN [id |-> i, role |-> tbl[i].role]

\* res.json({ success: true, token, user })
LoginOut(tbl, b) ==
  LET i == CHOOSE i \in UsersByPhone(tbl, b) : TRUE
  IN [token |-> LoginToken(tbl, b), user |-> FullRow(i, tbl[i])]

Login(r, b) ==
  /\ req[r].pc = "idle"
  /\ tokens' = IF LoginCode(users, b) = 200
                 THEN tokens \cup {LoginToken(users, b)} ELSE tokens
  /\ IF LoginCode(users, b) = 200
       THEN RespondWith(r, "login", NoCred, b, 0, LoginOut(users, b))
       ELSE Respond(r, "login", NoCred, b, 0, LoginCode(users, b),
                    LoginError(LoginCode(users, b)))
  /\ UNCHANGED <<users, nextUserId, games, cartelas, nextGameId>>

(* ------- the agents routes of the current server: the gateway ---------- *)

\* app.post(path, authenticate, handler): authenticate itself is the
\* middleware, so it is called with (req, res, next), returns a function
\* nobody calls and neither answers nor calls next: the request stays open
AuthenticateUncalled(r, op, cred, b, id) ==
  /\ req[r].pc = "idle"
  /\ req' = [req EXCEPT ![r] =
               [Idle EXCEPT !.op = op, !.pc = "hung", !.cred = cred, !.body = b,
                            !.id = id]]
  /\ UNCHANGED <<users, nextUserId, tokens, games, cartelas, nextGameId>>

(* ---------- POST /api/agents/create (createAgent, earlier server) ------ *)

CreateAgentDenied(r, cred) ==
  /\ req[r].pc = "idle"
  /\ authMiddleware("owner", cred) # 0
  /\ Respond(r, "createAgent", cred, EmptyBody, 0, authMiddleware("owner", cred), "gateway")
  /\ UNCHANGED <<users, nextUserId, tokens, games, cartelas, nextGameId>>

CreateAgentInvalid(r, cred, b) ==
  /\ req[r].pc = "idle"
  /\ authMiddleware("owner", cred) = 0
  /\ ~AccountValid(b)
  /\ Respond(r, "createAgent", cred, b, 0, 400, "phone and password required")
  /\ UNCHANGED <<users, nextUserId, tokens, games, cartelas, nextGameId>>

CreateAgentExists(r, cred, b) ==
  /\ req[r].pc = "idle"
  /\ authMiddleware("owner", cred) = 0
  /\ AccountValid(b)
  /\ UsersByPhone(users, b) # {}
  /\ Respond(r, "createAgent", cred, b, 0, 400, "Phone already registered")
  /\ UNCHANGED <<users, nextUserId, tokens, games, cartelas, nextGameId>>

\* no row has the phone: the handler goes on to hash the password and INSERT
CreateAgentCheck(r, cred, b) ==
  /\ req[r].pc = "idle"
  /\ authMiddleware("owner", cred) = 0
  /\ AccountValid(b)
  /\ UsersByPhone(users, b) = {}
  /\ req' = [req EXCEPT ![r] =
               [Idle EXCEPT !.op = "createAgent", !.pc = "insert", !.cred = cred,
                            !.body = b]]
  /\ UNCHANGED <<users, nextUserId, tokens, games, cartelas, nextGameId>>

CreateAgentInsert(r) ==
  /\ req[r].op = "createAgent" /\ req[r].pc = "insert"
  /\ nextUserId <= MaxUsers
  /\ IF PhoneFree(users, req[r].body.phone)
       THEN /\ users' = users @@ (nextUserId :> UserRow(req[r].body, "agent"))
            /\ nextUserId' = nextUserId + 1
            /\ req' = [req EXCEPT ![r].pc = "done", ![r].id = nextUserId,
                                  ![r].code = 200, ![r].out = [id |-> nextUserId]]
       ELSE /\ Reply(r, 500, "Server error")
            /\ UNCHANGED <<users, nextUserId>>
  /\ UNCHANGED <<tokens, games, cartelas, nextGameId>>

(* --------- POST /api/agents/:id/toggle (setActive, earlier server) ----- *)

ToggleDenied(r, cred) ==
  /\ req[r].pc = "idle"
  /\ authMiddleware("owner", cred) # 0
  /\ Respond(r, "setActive", cred, EmptyBody, 0, authMiddleware("owner", cred), "gateway")
  /\ UNCHANGED <<users, nextUserId, tokens, games, cartelas, nextGameId>>

\* SELECT isactive FROM users WHERE id=$1 AND role='agent' returns no row
ToggleNotFound(r, cred, id) ==
  /\ req[r].pc = "idle"
  /\ authMiddleware("owner", cred) = 0
  /\ id \notin Agents
  /\ Respond(r, "setActive", cred, EmptyBody, id, 404, "Agent not found")
  /\ UNCHANGED <<users, nextUserId, tokens, games, cartelas, nextGameId>>

\* ... or the agent's flag: newStatus = !current
ToggleSelect(r, cred, id) ==
  /\ req[r].pc = "idle"
  /\ authMiddleware("owner", cred) = 0
  /\ id \in Agents
  /\ req' = [req EXCEPT ![r] =
               [Idle EXCEPT !.op = "setActive", !.pc = "update", !.cred = cred,
                            !.id = id, !.newStatus = ~users[id].isactive]]
  /\ UNCHANGED <<users, nextUserId, tokens, games, cartelas, nextGameId>>

\* UPDATE users SET isactive=$1 WHERE id=$2
SetIsActive(tbl, id, newStatus) ==
  IF id \in DOMAIN tbl THEN [tbl EXCEPT ![id].isactive = newStatus] ELSE tbl

ToggleUpdate(r) ==
  /\ req[r].op = "setActive" /\ req[r].pc = "update"
  /\ users' = SetIsActive(users, req[r].id, req[r].newStatus)
  /\ Reply(r, 200, "")
  /\ UNCHANGED <<nextUserId, tokens, games, cartelas, nextGameId>>

(* ------------- DELETE /api/agents/:id (deleteAgent, earlier server) ---- *)

DeleteAgentDenied(r, cred) ==
  /\ req[r].pc = "idle"
  /\ authMiddleware("owner", cred) # 0
  /\ Respond(r, "deleteAgent", cred, EmptyBody, 0, authMiddleware("owner", cred), "gateway")
  /\ UNCHANGED <<users, nextUserId, tokens, games, cartelas, nextGameId>>

\* DELETE FROM games WHERE agentid=$1
DeleteGamesOf(tbl, agentId) ==
  [g \in {h \in DOMAIN tbl : tbl[h].agentid # agentId} |-> tbl[g]]

\* the delete without its role test: any account goes
DeleteAnyRow(tbl, agentId) ==
  [i \in {j \in DOMAIN tbl : j # agentId} |-> tbl[i]]

\* DELETE FROM users WHERE id=$1 AND role='agent'
DeleteAgentRow(tbl, agentId) ==
  [i \in {j \in DOMAIN tbl : ~(j = agentId /\ tbl[j].role = "agent")} |-> tbl[i]]

\* the first query: the agent's games go
DeleteAgentGames(r, cred, id) ==
  /\ req[r].pc = "idle"
  /\ authMiddleware("owner", cred) = 0
  /\ games' = DeleteGamesOf(games, id)
  /\ req' = [req EXCEPT ![r] =
               [Idle EXCEPT !.op = "deleteAgent", !.pc = "delete", !.cred = cred,
                            !.id = id]]
  /\ UNCHANGED <<users, nextUserId, tokens, cartelas, nextGameId>>

\* the second query: the agent's row goes, and the answer is success
DeleteAgentUser(r) ==
  /\ req[r].op = "deleteAgent" /\ req[r].pc = "delete"
  /\ users' = DeleteAgentRow(users, req[r].id)
  /\ Reply(r, 200, "")
  /\ UNCHANGED <<nextUserId, tokens, games, cartelas, nextGameId>>

(* ------------- GET /api/agents (listAgents, earlier server) ------------ *)

ListAgentsDenied(r, cred) ==
  /\ req[r].pc = "idle"
  /\ authMiddleware("owner", cred) # 0
  /\ Respond(r, "listAgents", cred, EmptyBody, 0, authMiddleware("owner", cred), "gateway")
  /\ UNCHANGED <<users, nextUserId, tokens, games, cartelas, nextGameId>>

\* SELECT id, phone, name, role, isactive FROM users WHERE role='agent'
AgentRows(tbl) ==
  { [id |-> i, phone |-> tbl[i].phone, name |-> tbl[i].name, role |-> tbl[i].role,
     isactive |-> tbl[i].isactive] : i \in {j \in DOMAIN tbl : tbl[j].role = "agent"} }

ListAgents(r, cred) ==
  /\ req[r].pc = "idle"
  /\ authMiddleware("owner", cred) = 0
  /\ RespondWith(r, "listAgents", cred, EmptyBody, 0, [agents |-> AgentRows(users)])
  /\ UNCHANGED <<users, nextUserId, tokens, games, cartelas, nextGameId>>

(* ------------------- the owner's views of the games -------------------- *)

\* ORDER BY u.name: the place of each display name of the model in the
\* collation, a NULL name last
NameRank(name) ==
  CASE name = "agent" -> 1
    [] name = "fourth" -> 2
    [] name = "other" -> 3
    [] name = "owner" -> 4
    [] OTHER -> 5

\* u.name AS agent_name of the joined row of game g
AgentName(utbl, gtbl, g) == utbl[gtbl[g].agentid].name

\* FROM games g JOIN users u ON g.agentid = u.id
JoinedGames(utbl, gtbl) == {g \in DOMAIN gtbl : gtbl[g].agentid \in DOMAIN utbl}

\* ... WHERE u.role = 'agent'
ReportedGames(utbl, gtbl) ==
  {g \in JoinedGames(utbl, gtbl) : utbl[gtbl[g].agentid].role = "agent"}

\* ORDER BY u.name, g.date DESC: by name, the latest game first (games get
\* their date when they are created, so a later id is a later date)
RowBefore(utbl, gtbl, g, h) ==
  \/ NameRank(AgentName(utbl, gtbl, g)) < NameRank(AgentName(utbl, gtbl, h))
  \/ /\ NameRank(AgentName(utbl, gtbl, g)) = NameRank(AgentName(utbl, gtbl, h))
     /\ g > h

RECURSIVE OrderRows(_, _, _)
OrderRows(utbl, gtbl, S) ==
  IF S = {} THEN <<>>
  ELSE LET g == CHOOSE x \in S : \A y \in S \ {x} : RowBefore(utbl, gtbl, x, y)
       IN <<g>> \o OrderRows(utbl, gtbl, S \ {g})

\* what the report document is made of, in the order it is written
Header(name) == [kind |-> "header", name |-> name, game |-> 0, value |-> 0]
GameLine(g, profit) == [kind |-> "game", name |-> "", game |-> g, value |-> profit]
Subtotal(v) == [kind |-> "subtotal", name |-> "", game |-> 0, value |-> v]
GrandTotal(v) == [kind |-> "grand", name |-> "", game |-> 0, value |-> v]

\* let currentAgent = null: the value the loop starts from, which is also
\* what a NULL name reads as
NoAgentYet == "null"

\* the loop over the rows and the two totals written after it
RECURSIVE ReportLoop(_, _, _, _, _, _, _, _)
ReportLoop(utbl, gtbl, rows, i, currentAgent, totalProfitAgent, totalProfitAll, doc) ==
  IF i > Len(rows)
    THEN doc \o <<Subtotal(totalProfitAgent), GrandTotal(totalProfitAll)>>
    ELSE LET g == rows[i]
             name == AgentName(utbl, gtbl, g)
             opens == currentAgent # name
             closing == IF opens /\ currentAgent # NoAgentYet
                          THEN <<Subtotal(totalProfitAgent)>> ELSE <<>>
             opening == IF opens THEN <<Header(name)>> ELSE <<>>
             sofar == IF opens THEN 0 ELSE totalProfitAgent
         IN ReportLoop(utbl, gtbl, rows, i + 1, name, sofar + gtbl[g].profit,
                       totalProfitAll + gtbl[g].profit,
                       doc \o closing \o opening \o <<GameLine(g, gtbl[g].profit)>>)

ReportDocument(utbl, gtbl) ==
  ReportLoop(utbl, gtbl, OrderRows(utbl, gtbl, ReportedGames(utbl, gtbl)),
             1, NoAgentYet, 0, 0, <<>>)

\* RequiredRole of the two views
AllGamesDenied(r, cred) ==
  /\ req[r].pc = "idle"
  /\ authenticate("owner", cred) # 0
  /\ Respond(r, "allGames", cred, EmptyBody, 0, authenticate("owner", cred), "gateway")
  /\ UNCHANGED <<users, nextUserId, tokens, games, cartelas, nextGameId>>

\* GET /api/games: every game with its agent, by agent name and date
AllGames(r, cred) ==
  /\ req[r].pc = "idle"
  /\ authenticate("owner", cred) = 0
  /\ RespondWith(r, "allGames", cred, EmptyBody, 0,
                 [games |-> OrderRows(users, games, JoinedGames(users, games))])
  /\ UNCHANGED <<users, nextUserId, tokens, games, cartelas, nextGameId>>

OwnerReportDenied(r, cred) ==
  /\ req[r].pc = "idle"
  /\ authenticate("owner", cred) # 0
  /\ Respond(r, "ownerReport", cred, EmptyBody, 0, authenticate("owner", cred), "gateway")
  /\ UNCHANGED <<users, nextUserId, tokens, games, cartelas, nextGameId>>

\* GET /api/reports/owner: the document is the response
OwnerReport(r, cred) ==
  /\ req[r].pc = "idle"
  /\ authenticate("owner", cred) = 0
  /\ RespondWith(r, "ownerReport", cred, EmptyBody, 0,
                 [doc |-> ReportDocument(users, games)])
  /\ UNCHANGED <<users, nextUserId, tokens, games, cartelas, nextGameId>>

(* ------------------------ the cartela reads ---------------------------- *)

\* ORDER BY id ASC
RECURSIVE SortedIds(_)
SortedIds(S) ==
  IF S = {} THEN <<>>
  ELSE LET k == CHOOSE x \in S : \A y \in S : x <= y
       IN <<k>> \o SortedIds(S \ {k})

\* GET /api/cartelas: SELECT * FROM cartelas ORDER BY id ASC, for any caller
ListAvailable(r) ==
  /\ req[r].pc = "idle"
  /\ RespondWith(r, "listAvailable", NoCred, EmptyBody, 0,
                 [cartelas |-> SortedIds(DOMAIN cartelas)])
  /\ UNCHANGED <<users, nextUserId, tokens, games, cartelas, nextGameId>>

CartelasForGameDenied(r, cred) ==
  /\ req[r].pc = "idle"
  /\ authenticate("", cred) # 0
  /\ Respond(r, "cartelasForGame", cred, EmptyBody, 0, authenticate("", cred), "gateway")
  /\ UNCHANGED <<users, nextUserId, tokens, games, cartelas, nextGameId>>

\* SELECT ... FROM cartelas WHERE gameid = $1 ORDER BY id ASC
LinkedCartelas(tbl, id) == SortedIds({k \in DOMAIN tbl : tbl[k].gameid = <<id>>})

\* GET /api/games/:id/cartelas
CartelasForGame(r, cred, id) ==
  /\ req[r].pc = "idle"
  /\ authenticate("", cred) = 0
  /\ RespondWith(r, "cartelasForGame", cred, EmptyBody, id,
                 [cartelas |-> LinkedCartelas(cartelas, id)])
  /\ UNCHANGED <<users, nextUserId, tokens, games, cartelas, nextGameId>>

(* --------------------------- specifications ---------------------------- *)

\* game creation: every createGame and startGame request, and finish
CreateStep(r) ==
  \/ \E cred \in Creds : CreateGameDenied(r, cred)
  \/ \E cred \in Creds, b \in GameBodies : CreateGameInvalid(r, cred, b)
  \/ \E cred \in Creds, b \in GameBodies : CreateGameNoOwner(r, cred, b)
  \/ \E cred \in Creds, b \in GameBodies : CreateGameLookup(r, cred, b)
  \/ CreateGameInsert(r)
  \/ CreateGameLink(r)
  \/ \E cred \in Creds : StartGameDenied(r, cred)
  \/ \E cred \in Creds, b \in GameBodies : StartGameInvalid(r, cred, b)
  \/ \E cred \in Creds, b \in GameBodies : StartGameInsert(r, cred, b)
  \/ \E cred \in Creds, id \in PathIds : FinishGame(r, cred, EmptyBody, id)
  \/ StoreError(r)
  \/ Return(r)

Next == \E r \in Reqs : CreateStep(r)

\* requests overlap: up to MaxReqs handlers are in flight
Spec == Init /\ [][Next]_vars

NextSeq == \E r \in SeqReqs : CreateStep(r)

\* requests arrive one after the other: one handler runs at a time
SpecSeq == Init /\ [][NextSeq]_vars

\* settlement: games are created from SettleBodies, finished and ended
SettleStep(r) ==
  \/ \E cred \in Creds, b \in SettleBodies : CreateGameLookup(r, cred, b)
  \/ CreateGameInsert(r)
  \/ \E cred \in Creds : FinishGameDenied(r, cred)
  \/ \E cred \in Creds, b \in FinishBodies, id \in PathIds : FinishGame(r, cred, b, id)
  \/ \E cred \in Creds : EndGameDenied(r, cred)
  \/ \E cred \in Creds, b \in EndBodies, id \in PathIds : EndGameNoMoney(r, cred, b, id)
  \/ \E cred \in Creds, b \in EndBodies, id \in PathIds : EndGameNotFound(r, cred, b, id)
  \/ \E cred \in Creds, b \in EndBodies, id \in PathIds : EndGameSelect(r, cred, b, id)
  \/ EndGameUpdate(r)
  \/ StoreError(r)
  \/ Return(r)

NextSettle == \E r \in Reqs : SettleStep(r)

\* requests overlap here too
SpecSettle == Init /\ [][NextSettle]_vars

\* number calling: games are created from SettleBodies, called and finished
CalledStep(r) ==
  \/ \E cred \in Creds, b \in SettleBodies : CreateGameLookup(r, cred, b)
  \/ CreateGameInsert(r)
  \/ \E cred \in CalledCreds, b \in CalledBodies, id \in PathIds :
       RecordCalledInvalid(r, cred, b, id)
  \/ \E cred \in CalledCreds, b \in CalledBodies, id \in PathIds :
       RecordCalled(r, cred, b, id)
  \/ \E cred \in Creds, id \in PathIds : FinishGame(r, cred, EmptyBody, id)
  \/ StoreError(r)
  \/ Return(r)

NextCalledSeq == \E r \in SeqReqs : CalledStep(r)

\* one request at a time
SpecCalledSeq == Init /\ [][NextCalledSeq]_vars

\* a game's life: created, numbers called, finished and ended
GameStep(r) ==
  \/ SettleStep(r)
  \/ \E cred \in CalledCreds, b \in CalledBodies, id \in PathIds :
       RecordCalledInvalid(r, cred, b, id)
  \/ \E cred \in CalledCreds, b \in CalledBodies, id \in PathIds :
       RecordCalled(r, cred, b, id)

NextGameSeq == \E r \in SeqReqs : GameStep(r)

\* one request at a time
SpecGameSeq == Init /\ [][NextGameSeq]_vars

\* account creation: createOwner on the current server, createAgent on the
\* earlier one, and the agents routes of the current server
AccountStep(r) ==
  \/ \E b \in AccountBodies : CreateOwnerInvalid(r, b)
  \/ \E b \in AccountBodies : CreateOwnerExists(r, b)
  \/ \E b \in AccountBodies : CreateOwnerCount(r, b)
  \/ CreateOwnerInsert(r)
  \/ \E cred \in Creds : CreateAgentDenied(r, cred)
  \/ \E cred \in Creds, b \in AccountBodies : CreateAgentInvalid(r, cred, b)
  \/ \E cred \in Creds, b \in AccountBodies : CreateAgentExists(r, cred, b)
  \/ \E cred \in Creds, b \in AccountBodies : CreateAgentCheck(r, cred, b)
  \/ CreateAgentInsert(r)
  \/ \E cred \in Creds, b \in AccountBodies :
       AuthenticateUncalled(r, "createAgent", cred, b, 0)
  \/ \E cred \in Creds, id \in UserPathIds :
       AuthenticateUncalled(r, "setActive", cred, EmptyBody, id)
  \/ StoreError(r)
  \/ Return(r)

NextAccounts == \E r \in Reqs : AccountStep(r)

\* requests overlap
SpecAccounts == Init /\ [][NextAccounts]_vars

\* the whole account store: creation, login and the block flag
AccountSeqStep(r) ==
  \/ AccountStep(r)
  \/ \E b \in LoginBodies : Login(r, b)
  \/ \E cred \in Creds : ToggleDenied(r, cred)
  \/ \E cred \in Creds, id \in UserPathIds : ToggleNotFound(r, cred, id)
  \/ \E cred \in Creds, id \in UserPathIds : ToggleSelect(r, cred, id)
  \/ ToggleUpdate(r)

NextAccountsSeq == \E r \in SeqReqs : AccountSeqStep(r)

\* one request at a time
SpecAccountsSeq == Init /\ [][NextAccountsSeq]_vars

\* Bodies of the games of an agent that is deleted: with and without a cartela
DeleteBodies ==
  SettleBodies \cup { [players |-> 1, pot |-> 2, entryfee |-> 1, cartelas |-> <<1>>] }

\* games are created while agents are deleted
DeleteStep(r) ==
  \/ \E cred \in Creds, b \in DeleteBodies : CreateGameLookup(r, cred, b)
  \/ CreateGameInsert(r)
  \/ CreateGameLink(r)
  \/ \E cred \in Creds : DeleteAgentDenied(r, cred)
  \/ \E cred \in Creds, id \in UserPathIds : DeleteAgentGames(r, cred, id)
  \/ DeleteAgentUser(r)
  \/ StoreError(r)
  \/ Return(r)

NextDelete == \E r \in Reqs : DeleteStep(r)

\* requests overlap
SpecDelete == Init /\ [][NextDelete]_vars

\* every route behind the gateway, with every kind of header
GatewayStep(r) ==
  \/ \E cred \in GatewayCreds : CreateGameDenied(r, cred)
  \/ \E cred \in GatewayCreds, b \in SettleBodies : CreateGameLookup(r, cred, b)
  \/ CreateGameInsert(r)
  \/ \E cred \in GatewayCreds : AllGamesDenied(r, cred)
  \/ \E cred \in GatewayCreds : AllGames(r, cred)
  \/ \E cred \in GatewayCreds : OwnerReportDenied(r, cred)
  \/ \E cred \in GatewayCreds : OwnerReport(r, cred)
  \/ \E cred \in GatewayCreds, op \in {"createAgent", "listAgents"} :
       AuthenticateUncalled(r, op, cred, EmptyBody, 0)
  \/ \E cred \in GatewayCreds, op \in {"setActive", "deleteAgent"}, id \in UserPathIds :
       AuthenticateUncalled(r, op, cred, EmptyBody, id)
  \/ \E cred \in GatewayCreds : CreateAgentDenied(r, cred)
  \/ \E cred \in GatewayCreds : ListAgentsDenied(r, cred)
  \/ \E cred \in GatewayCreds : ListAgents(r, cred)
  \/ \E cred \in GatewayCreds : ToggleDenied(r, cred)
  \/ \E cred \in GatewayCreds : DeleteAgentDenied(r, cred)
  \/ \E cred \in GatewayCreds, id \in UserPathIds : DeleteAgentGames(r, cred, id)
  \/ DeleteAgentUser(r)
  \/ StoreError(r)
  \/ Return(r)

NextGateway == \E r \in Reqs : GatewayStep(r)

\* requests overlap
SpecGateway == Init /\ [][NextGateway]_vars

\* Accounts of the report: an agent registered without a name and one with
ReportAgentBodies ==
  { [phone |-> "0933", password |-> "pw"],
    [phone |-> "0944", password |-> "pw", name |-> "fourth"] }

\* Games of the report: without profit, and with a profit of 40
ReportBodies ==
  { [players |-> 1, pot |-> 2, entryfee |-> 1],
    [players |-> 1, pot |-> 50, entryfee |-> 1, winnermoney |-> 10, profit |-> 40] }

\* the owner, the seeded agent and the agents registered since
ReportCreds ==
  {Bearer(1, "owner"), Bearer(2, "agent"), Bearer(3, "agent"), Bearer(4, "agent")}

\* agents are registered, log in and create games; the owner reads the report
ReportStep(r) ==
  \/ \E b \in ReportAgentBodies : CreateAgentCheck(r, Bearer(1, "owner"), b)
  \/ CreateAgentInsert(r)
  \/ \E b \in ReportAgentBodies : Login(r, b)
  \/ \E cred \in ReportCreds, b \in ReportBodies : CreateGameLookup(r, cred, b)
  \/ CreateGameInsert(r)
  \/ \E cred \in ReportCreds : OwnerReportDenied(r, cred)
  \/ \E cred \in ReportCreds : OwnerReport(r, cred)
  \/ StoreError(r)
  \/ Return(r)

NextReport == \E r \in SeqReqs : ReportStep(r)

\* one request at a time
SpecReport == Init /\ [][NextReport]_vars

\* Games over one cartela, over both, and over both named in another order
CartelaBodies ==
  { [players |-> 1, pot |-> 2, entryfee |-> 1, cartelas |-> <<1>>],
    [players |-> 1, pot |-> 2, entryfee |-> 1, cartelas |-> <<1, 2>>],
    [players |-> 1, pot |-> 2, entryfee |-> 1, cartelas |-> <<2, 1>>] }

\* games take cartelas and the cartelas are read, while the store answers
\* every query
CartelaStep(r) ==
  \/ \E cred \in Creds, b \in CartelaBodies : CreateGameLookup(r, cred, b)
  \/ CreateGameInsert(r)
  \/ CreateGameLink(r)
  \/ ListAvailable(r)
  \/ \E cred \in Creds : CartelasForGameDenied(r, cred)
  \/ \E cred \in Creds, id \in PathIds : CartelasForGame(r, cred, id)
  \/ Return(r)

NextCartelas == \E r \in SeqReqs : CartelaStep(r)

\* one request at a time
SpecCartelas == Init /\ [][NextCartelas]_vars

\* Games with no date, an empty one, a date, and a string that is no date
DateBodies ==
  { [players |-> 1, pot |-> 2, entryfee |-> 1],
    [players |-> 1, pot |-> 2, entryfee |-> 1, date |-> ""],
    [players |-> 1, pot |-> 2, entryfee |-> 1, date |-> "2024-01-31"],
    [players |-> 1, pot |-> 2, entryfee |-> 1, date |-> "garbage"],
    [players |-> 1, pot |-> 2, date |-> "garbage"] }

\* games are created with and without a date
DateStep(r) ==
  \/ \E cred \in Creds : CreateGameDenied(r, cred)
  \/ \E cred \in Creds, b \in DateBodies : CreateGameInvalid(r, cred, b)
  \/ \E cred \in Creds, b \in DateBodies : CreateGameNoOwner(r, cred, b)
  \/ \E cred \in Creds, b \in DateBodies : CreateGameLookup(r, cred, b)
  \/ CreateGameInsert(r)
  \/ CreateGameBadDate(r)
  \/ StoreError(r)
  \/ Return(r)

NextDate == \E r \in Reqs : DateStep(r)

\* requests overlap
SpecDate == Init /\ [][NextDate]_vars

\* who ends games: a caller without a token, and the agent
EndCreds == {NoCred, Bearer(2, "agent")}

\* the games that are ended: every id the serial can hand out
EndIds == 1..MaxGames

\* games are created and ended, several times over
EndStep(r) ==
  \/ \E b \in SettleBodies : CreateGameLookup(r, Bearer(2, "agent"), b)
  \/ CreateGameInsert(r)
  \/ \E cred \in EndCreds : EndGameDenied(r, cred)
  \/ EndGameNoMoney(r, Bearer(2, "agent"), EmptyBody, 1)
  \/ \E b \in EndBodies, id \in EndIds : EndGameNotFound(r, Bearer(2, "agent"), b, id)
  \/ \E b \in EndBodies, id \in EndIds : EndGameSelect(r, Bearer(2, "agent"), b, id)
  \/ EndGameUpdate(r)
  \/ Return(r)

NextEnd == \E r \in Reqs : EndStep(r)

\* requests overlap
SpecEnd == Init /\ [][NextEnd]_vars

\* Games with a configuration of their own: a plain one, and one with a
\* win-mode, a cartela and a date
FrameBodies ==
  SettleBodies \cup
  { [players |-> 3, pot |-> 5, entryfee |-> 2, winmode |-> "line",
     cartelas |-> <<1>>, date |-> "2024-01-31"] }

\* the numbers that are called
FrameCalled == { [numbers |-> <<5>>], [numbers |-> <<7, 5>>] }

\* the payouts
FrameAmounts == { [winnerMoney |-> 1], [winnerMoney |-> 3] }

\* a game's life after its creation: numbers called, finished, ended
FrameStep(r) ==
  \/ \E b \in FrameBodies : CreateGameLookup(r, Bearer(2, "agent"), b)
  \/ CreateGameInsert(r)
  \/ CreateGameLink(r)
  \/ \E b \in FrameCalled, id \in EndIds : RecordCalled(r, NoCred, b, id)
  \/ \E b \in FinishBodies, id \in EndIds : FinishGame(r, Bearer(2, "agent"), b, id)
  \/ \E b \in FrameAmounts, id \in EndIds : EndGameSelect(r, Bearer(2, "agent"), b, id)
  \/ EndGameUpdate(r)
  \/ Return(r)

NextFrameSeq == \E r \in SeqReqs : FrameStep(r)

\* one request at a time
SpecFrameSeq == Init /\ [][NextFrameSeq]_vars

\* sessions outlive what happens to their accounts: agents are blocked and
\* deleted by the owner, and go on creating games
SessionStep(r) ==
  \/ \E cred \in Creds : CreateGameDenied(r, cred)
  \/ \E cred \in Creds, b \in SettleBodies : CreateGameNoOwner(r, cred, b)
  \/ \E cred \in Creds, b \in SettleBodies : CreateGameLookup(r, cred, b)
  \/ CreateGameInsert(r)
  \/ \E cred \in Creds : AllGamesDenied(r, cred)
  \/ \E cred \in Creds : AllGames(r, cred)
  \/ \E cred \in Creds : ToggleDenied(r, cred)
  \/ \E cred \in Creds, id \in UserPathIds : ToggleNotFound(r, cred, id)
  \/ \E cred \in Creds, id \in UserPathIds : ToggleSelect(r, cred, id)
  \/ ToggleUpdate(r)
  \/ \E cred \in Creds : DeleteAgentDenied(r, cred)
  \/ \E cred \in Creds, id \in UserPathIds : DeleteAgentGames(r, cred, id)
  \/ DeleteAgentUser(r)
  \/ Return(r)

NextSessionSeq == \E r \in SeqReqs : SessionStep(r)

\* one request at a time
SpecSessionSeq == Init /\ [][NextSessionSeq]_vars

\* the owner switches agents off and on
ToggleStep(r) ==
  \/ \E cred \in Creds, id \in UserPathIds :
       AuthenticateUncalled(r, "setActive", cred, EmptyBody, id)
  \/ \E cred \in Creds : ToggleDenied(r, cred)
  \/ \E cred \in Creds, id \in UserPathIds : ToggleNotFound(r, cred, id)
  \/ \E cred \in Creds, id \in UserPathIds : ToggleSelect(r, cred, id)
  \/ ToggleUpdate(r)
  \/ StoreError(r)
  \/ Return(r)

NextToggle == \E r \in Reqs : ToggleStep(r)

\* requests overlap
SpecToggle == Init /\ [][NextToggle]_vars

\* a fresh installation: no account, no session, no game
InitEmpty ==
  /\ users = EmptyBody
  /\ nextUserId = 1
  /\ tokens = {}
  /\ games = EmptyBody
  /\ cartelas = [k \in CartelaIds |-> [issued |-> FALSE, gameid |-> <<>>]]
  /\ nextGameId = 1
  /\ req = [r \in Reqs |-> Idle]

\* the first owner, and the agent the owner registers
FirstOwnerBodies == { [phone |-> "0911", password |-> "pw", name |-> "owner"] }
FirstAgentBodies == { [phone |-> "0922", password |-> "pw", name |-> "agent"] }

\* the callers: nobody in particular, the first owner and the first agent
FreshCreds == {NoCred, Bearer(1, "owner"), Bearer(2, "agent")}

\* the accounts the owner deletes: the owner's own id and the agent's
FreshIds == {1, 2}

\* from the first owner on: accounts are created, log in, create games and
\* are deleted
FreshStep(r) ==
  \/ \E b \in FirstOwnerBodies : CreateOwnerExists(r, b)
  \/ \E b \in FirstOwnerBodies : CreateOwnerCount(r, b)
  \/ CreateOwnerInsert(r)
  \/ \E b \in FirstOwnerBodies \cup FirstAgentBodies : Login(r, b)
  \/ CreateAgentDenied(r, Bearer(2, "agent"))
  \/ \E b \in FirstAgentBodies : CreateAgentExists(r, Bearer(1, "owner"), b)
  \/ \E b \in FirstAgentBodies : CreateAgentCheck(r, Bearer(1, "owner"), b)
  \/ CreateAgentInsert(r)
  \/ DeleteAgentDenied(r, Bearer(2, "agent"))
  \/ \E id \in FreshIds : DeleteAgentGames(r, Bearer(1, "owner"), id)
  \/ DeleteAgentUser(r)
  \/ \E cred \in FreshCreds : CreateGameDenied(r, cred)
  \/ \E b \in SettleBodies : CreateGameLookup(r, Bearer(2, "agent"), b)
  \/ CreateGameInsert(r)
  \/ Return(r)

NextFresh == \E r \in Reqs : FreshStep(r)

\* requests overlap, from an empty users table
SpecFresh == InitEmpty /\ [][NextFresh]_vars

(* ------------------------------ claims --------------------------------- *)

\* the request passed the gateway and the handler body ran
Admitted(q) == q.code \notin {401, 403}

CartelaSet(q) == Range(BodyCartelas(q.body))

\* a game that exists and is not completed
ActiveGame(g) == g \in DOMAIN games /\ games[g].status # "completed"

\* the step completes the request in slot r
Completes(r) == req[r].pc # "done" /\ req'[r].pc = "done"

\* the step is the first step of a request in slot r
Begins(r, op) == req[r].pc = "idle" /\ req'[r].op = op

\* C1: of two createGame calls in flight together whose cartela sets
\* overlap, at most one succeeds.  Slot r2 inserted its game before slot r1
\* did (its game id is the smaller one) and is still running when r1 has
\* succeeded, so the two calls overlap in time; r2 must then not succeed.
C1_OverlappingCallsNotBothSucceed ==
  [][\A r1, r2 \in Reqs :
       ( /\ r1 # r2
         /\ req[r1].op = "createGame" /\ req[r1].pc = "done" /\ req[r1].code = 200
         /\ req[r2].op = "createGame" /\ req[r2].pc = "link"
         /\ req[r2].gameId < req[r1].gameId
         /\ CartelaSet(req[r1]) \cap CartelaSet(req[r2]) # {}
         /\ Completes(r2) )
       => req'[r2].code # 200]_vars

\* C2: every cartela an in-progress game's configuration refers to is
\* issued, and no cartela is referred to by two in-progress games.
C2_InProgressCartelasIssuedOnce ==
  /\ \A g \in DOMAIN games :
       ActiveGame(g) =>
         \A k \in Range(games[g].cartelas) \cap CartelaIds : cartelas[k].issued
  /\ \A g1, g2 \in DOMAIN games :
       (g1 # g2 /\ ActiveGame(g1) /\ ActiveGame(g2)) =>
         Range(games[g1].cartelas) \cap Range(games[g2].cartelas) = {}

\* C3: with one request at a time, a createGame call that asks for a
\* cartela issued to a different active game answers 409 Conflict and
\* leaves that cartela's issued flag and game reference as they were.
C3_TakenCartelaIsConflict ==
  [][\A r \in Reqs, k \in CartelaIds :
       ( /\ req[r].op = "createGame" /\ req[r].pc = "link"
         /\ k \in CartelaSet(req[r])
         /\ cartelas[k].issued
         /\ cartelas[k].gameid # <<req[r].gameId>>
         /\ \E g \in Range(cartelas[k].gameid) : ActiveGame(g)
         /\ Completes(r)
         /\ req'[r].err # "store" )
       => (req'[r].code = 409 /\ cartelas'[k] = cartelas[k])]_vars

\* C4: when the reservation step of createGame fails, the game the call
\* inserted is gone again and no cartela has changed.
C4_FailedReservationRollsBack ==
  [][\A r \in Reqs :
       ( /\ req[r].op = "createGame" /\ req[r].pc = "link"
         /\ Completes(r)
         /\ req'[r].code # 200 )
       => (req[r].gameId \notin DOMAIN games' /\ cartelas' = cartelas)]_vars

\* players >= 1, pot >= 0 and entryfee >= 0, whatever else the body carries
SpecValid(b) ==
  /\ Has(b, "players") /\ b.players >= 1
  /\ Has(b, "pot") /\ b.pot >= 0
  /\ Has(b, "entryfee") /\ b.entryfee >= 0

\* C5: a createGame call with players >= 1, pot >= 0 and entryfee >= 0
\* (an owner exists, the caller is an agent, the store answers) succeeds,
\* and the game it stored is created, with nothing called and zero
\* winnermoney and profit.
C5_ValidCreateGameSucceeds ==
  [][\A r \in Reqs :
       ( /\ req'[r].op = "createGame"
         /\ Completes(r)
         /\ Admitted(req'[r])
         /\ SpecValid(req'[r].body)
         /\ Owners # {}
         /\ req'[r].err # "store" )
       => ( /\ req'[r].code = 200
            /\ req'[r].gameId \in DOMAIN games'
            /\ games'[req'[r].gameId].status = "created"
            /\ games'[req'[r].gameId].called = <<>>
            /\ games'[req'[r].gameId].winnermoney = 0
            /\ games'[req'[r].gameId].profit = 0 )]_vars

\* a required field is absent, or pot or entryfee is negative
SpecInvalid(b) ==
  \/ ~Has(b, "players") \/ ~Has(b, "pot") \/ ~Has(b, "entryfee")
  \/ b.pot < 0 \/ b.entryfee < 0

\* C6: a createGame call without players, pot or entryfee, or with a
\* negative pot or entryfee, is answered 400 in its first step, with no game
\* inserted and no cartela changed.
C6_BadConfigIsBadRequest ==
  [][\A r \in Reqs :
       ( /\ Begins(r, "createGame")
         /\ Admitted(req'[r])
         /\ SpecInvalid(req'[r].body)
         /\ Owners # {} )
       => ( /\ req'[r].pc = "done" /\ req'[r].code = 400
            /\ games' = games /\ cartelas' = cartelas )]_vars

\* C7: a createGame call by an agent, valid in players, pot and entryfee,
\* made while no owner exists is answered 500 in its first step, with no
\* game inserted and no cartela changed.
C7_NoOwnerIsInternalError ==
  [][\A r \in Reqs :
       ( /\ Begins(r, "createGame")
         /\ Admitted(req'[r])
         /\ SpecValid(req'[r].body)
         /\ Owners = {} )
       => ( /\ req'[r].pc = "done" /\ req'[r].code = 500
            /\ games' = games /\ cartelas' = cartelas )]_vars

\* C8: an endGame call on an existing game that carries winnerMoney (0 and
\* amounts above the pot included) succeeds and stores winnermoney =
\* winnerMoney and profit = pot - winnerMoney.
C8_EndGameStoresProfit ==
  [][\A r \in Reqs :
       ( /\ req'[r].op = "endGame"
         /\ Completes(r)
         /\ Admitted(req'[r])
         /\ Has(req'[r].body, "winnerMoney")
         /\ req'[r].id \in DOMAIN games
         /\ req'[r].err # "store" )
       => ( /\ req'[r].code = 200
            /\ games'[req'[r].id].winnermoney = req'[r].body.winnerMoney
            /\ games'[req'[r].id].profit =
                 games[req'[r].id].pot - req'[r].body.winnerMoney )]_vars

\* C9: when an endGame call succeeds, the game's status is completed.
C9_EndGameCompletes ==
  [][\A r \in Reqs :
       ( /\ req'[r].op = "endGame"
         /\ Completes(r)
         /\ req'[r].code = 200
         /\ req'[r].id \in DOMAIN games' )
       => games'[req'[r].id].status = "completed"]_vars

\* C10: an endGame call without winnerMoney is answered 400, one that
\* carries winnerMoney for a game id that does not exist is answered 404,
\* and in both cases the games table is unchanged.
C10_EndGameErrors ==
  [][\A r \in Reqs :
       ( /\ Begins(r, "endGame")
         /\ Admitted(req'[r]) )
       => ( /\ ~Has(req'[r].body, "winnerMoney") =>
                 (req'[r].pc = "done" /\ req'[r].code = 400 /\ games' = games)
            /\ (Has(req'[r].body, "winnerMoney") /\ req'[r].id \notin DOMAIN games) =>
                 (req'[r].pc = "done" /\ req'[r].code = 404 /\ games' = games) )]_vars

\* C11: every game whose status is completed has profit = pot - winnermoney.
C11_CompletedGameIsSettled ==
  \A g \in DOMAIN games :
    games[g].status = "completed" =>
      games[g].profit = games[g].pot - games[g].winnermoney

C13_CalledUnknownGameIsNotFound ==
  [][\A r \in Reqs :
       ( /\ req'[r].op = "recordCalled"
         /\ Completes(r)
         /\ Has(req'[r].body, "numbers")
         /\ req'[r].id \notin DOMAIN games )
       => req'[r].code = 404]_vars

IsPrefix(s, t) == Len(s) <= Len(t) /\ \A i \in 1..Len(s) : s[i] = t[i]

\* C14: in every step, each game's called sequence before the step is a
\* prefix of its called sequence after the step.
C14_CalledIsAppendOnly ==
  [][\A g \in DOMAIN games :
       g \in DOMAIN games' => IsPrefix(games[g].called, games'[g].called)]_vars

StatusRank(st) ==
  CASE st = "created" -> 1 [] st = "in-progress" -> 2
    [] st = "completed" -> 3 [] OTHER -> 0

\* C15: in every step, each game's status stays one of created,
\* in-progress and completed and does not move backwards; a completed game
\* stays completed.
C15_StatusMovesForward ==
  [][\A g \in DOMAIN games :
       g \in DOMAIN games' =>
         ( /\ StatusRank(games'[g].status) > 0
           /\ StatusRank(games[g].status) <= StatusRank(games'[g].status) )]_vars

C17_AtMostOneOwner == Cardinality(Owners) <= 1

\* C18: no two user records have the same phone, and a createAgent call
\* that completes while a record with its phone exists is answered with the
\* phone-registered rejection and leaves the users table unchanged.
C18_PhoneUniqueOrConflict ==
  /\ [](\A i, j \in DOMAIN users : i # j => users[i].phone # users[j].phone)
  /\ [][\A r \in Reqs :
          ( /\ req'[r].op = "createAgent"
            /\ Completes(r)
            /\ Admitted(req'[r])
            /\ AccountValid(req'[r].body)
            /\ UsersByPhone(users, req'[r].body) # {}
            /\ req'[r].err # "store" )
          => ( /\ req'[r].err = "Phone already registered"
               /\ users' = users )]_vars

C20_SetActiveOnNonAgentIsNotFound ==
  [][\A r \in Reqs :
       /\ ( /\ Begins(r, "setActive")
            /\ JwtVerify(req'[r].cred) /\ req'[r].cred.role = "owner"
            /\ req'[r].id \notin Agents )
          => (req'[r].pc = "done" /\ req'[r].code = 404 /\ users' = users)
       /\ \A i \in Owners :
            i \in DOMAIN users' /\ users'[i].isactive = users[i].isactive]_vars

\* the payload carries a user object with the stored credential hash in it
CarriesHash(out) == Has(out, "user") /\ Has(out.user, "passwordhash")

\* C29: no 200 answer of createOwner, createAgent or login carries the
\* stored credential hash.
C29_NoHashInSuccessResponse ==
  \A r \in Reqs :
    ( /\ req[r].op \in {"createOwner", "createAgent", "login"}
      /\ req[r].pc = "done" /\ req[r].code = 200 )
    => ~CarriesHash(req[r].out)

\* C21: when a deleteAgent call for agent a completes with success, a is
\* not an agent in the users table and no game's agent reference is a.
C21_DeleteAgentCascades ==
  [][\A r \in Reqs :
       ( /\ req'[r].op = "deleteAgent"
         /\ Completes(r)
         /\ req'[r].code = 200 )
       => ( /\ req'[r].id \notin Agents'
            /\ \A g \in DOMAIN games' : games'[g].agentid # req'[r].id )]_vars

\* C27: every issued cartela's back-reference identifies a game that is in
\* the games table.
C27_IssuedCartelaPointsAtGame ==
  \A k \in CartelaIds :
    cartelas[k].issued =>
      \E g \in Range(cartelas[k].gameid) : g \in DOMAIN games

\* the operations the owner alone may call
OwnerOnlyOps ==
  {"createAgent", "listAgents", "setActive", "deleteAgent", "allGames", "ownerReport"}

\* the role each protected operation asks of its caller
RequiredRole(op) == IF op \in OwnerOnlyOps THEN "owner" ELSE "agent"

\* request r arrives in this step
Arrives(r) == req[r].pc = "idle" /\ req'[r].pc # "idle"

\* request r is turned away with this code in the step it arrives in, and
\* nothing is stored
TurnedAway(r, code) ==
  /\ req'[r].pc = "done"
  /\ req'[r].code = code
  /\ UNCHANGED <<users, games, cartelas>>

\* C22: an owner-only operation called with a valid agent token ends with
\* Forbidden and leaves the users, games and cartelas tables unchanged.
C22_OwnerOnlyOpsRefuseAgents ==
  [][\A r \in Reqs :
       ( /\ Arrives(r)
         /\ req'[r].op \in OwnerOnlyOps
         /\ req'[r].cred.hdr = "bearer"
         /\ JwtVerify(req'[r].cred)
         /\ req'[r].cred.role = "agent" )
       => TurnedAway(r, 403)]_vars

\* C23: a protected operation called with no bearer credential, or a
\* malformed one, is answered 401; called with a bearer credential that
\* fails verification or whose role is not the required one, it is
\* answered 403; in both cases the operation body does not run.
C23_GatewayAnswers ==
  [][\A r \in Reqs :
       Arrives(r) =>
         /\ req'[r].cred.hdr # "bearer" => TurnedAway(r, 401)
         /\ ( /\ req'[r].cred.hdr = "bearer"
              /\ \/ ~JwtVerify(req'[r].cred)
                 \/ req'[r].cred.role # RequiredRole(req'[r].op) )
            => TurnedAway(r, 403)]_vars

\* request r has arrived and has not been answered
InFlight(r) == req[r].pc \notin {"idle", "done"}

\* C24: no request is left without a response: a request that has arrived
\* and is not answered yet always has a next step of its handler to take.
C24_NoRequestIsLeftSuspended ==
  \A r \in Reqs : InFlight(r) => ENABLED GatewayStep(r)

\* the display names of the reported games' agents, in the order of the report
RECURSIVE GroupNames(_)
GroupNames(S) ==
  IF S = {} THEN <<>>
  ELSE LET n == CHOOSE x \in S : \A y \in S : NameRank(x) <= NameRank(y)
       IN <<n>> \o GroupNames(S \ {n})

RECURSIVE SumProfit(_)
SumProfit(S) ==
  IF S = {} THEN 0
  ELSE LET g == CHOOSE x \in S : TRUE IN games[g].profit + SumProfit(S \ {g})

IsHeader(item) == item.kind = "header"
IsSubtotal(item) == item.kind = "subtotal"

\* the document has one section for each group, in order, with the group's
\* sum as its subtotal, and ends with the sum over all reported games
ReportIsRight(doc) ==
  LET reported == ReportedGames(users, games)
      groups == GroupNames({AgentName(users, games, g) : g \in reported})
      headers == SelectSeq(doc, IsHeader)
      subtotals == SelectSeq(doc, IsSubtotal)
  IN /\ Len(headers) = Len(groups)
     /\ \A i \in 1..Len(groups) :
          /\ headers[i].name = groups[i]
          /\ i <= Len(subtotals)
          /\ subtotals[i].value =
               SumProfit({g \in reported : AgentName(users, games, g) = groups[i]})
     /\ doc[Len(doc)] = GrandTotal(SumProfit(reported))

\* C28: the owner's report has one section per agent group, each section's
\* subtotal is the sum of profit over the group's games, and the grand total
\* is the sum of profit over all reported games.
C28_ReportSectionsAndTotals ==
  \A r \in Reqs :
    ( /\ req[r].op = "ownerReport"
      /\ req[r].pc = "done"
      /\ req[r].code = 200 )
    => ReportIsRight(req[r].out.doc)

\* C25: cartelasForGame of an existing game returns the cartela ids of the
\* game's stored configuration snapshot, sorted by id.
C25_CartelasForGameIsTheSnapshot ==
  \A r \in Reqs :
    ( /\ req[r].op = "cartelasForGame"
      /\ req[r].pc = "done"
      /\ req[r].code = 200
      /\ req[r].id \in DOMAIN games )
    => req[r].out.cartelas = SortedIds(Range(games[req[r].id].cartelas))

\* C26: listAvailable returns exactly the cartelas that are not issued,
\* ordered by id.
C26_ListAvailableIsTheUnissued ==
  \A r \in Reqs :
    ( /\ req[r].op = "listAvailable"
      /\ req[r].pc = "done"
      /\ req[r].code = 200 )
    => req[r].out.cartelas = SortedIds({k \in DOMAIN cartelas : ~cartelas[k].issued})

\* the body gives no date, or one that does not read as a date
DateOmittedOrUnparseable(b) == ~TruthyStr(b, "date") \/ ~DateParses(b.date)

\* C30: createGame does not fail because of its date: when the INSERT of a
\* request with an omitted or unparseable date is answered by the store, the
\* game is stored and its date is the current timestamp.
C30_BadDateDefaultsToNow ==
  [][\A r \in Reqs :
       ( /\ req[r].op = "createGame"
         /\ req[r].pc = "insert"
         /\ req'[r].pc # "insert"
         /\ req'[r].err # "store"
         /\ DateOmittedOrUnparseable(req[r].body) )
       => /\ req'[r].code = 200
          /\ req'[r].gameId \in DOMAIN games'
          /\ games'[req'[r].gameId].date = "now"]_vars

\* C31: endGame is idempotent and the last write wins: each endGame call that
\* completes with success leaves the game with the call's winnerMoney as
\* winnermoney and pot - winnerMoney as profit, whatever earlier calls wrote
\* (so a repeat of the same call changes nothing), and no step changes the
\* pot of a game.
C31_EndGameLastWriteWins ==
  [][/\ \A r \in Reqs :
          ( /\ req'[r].op = "endGame"
            /\ Completes(r)
            /\ req'[r].code = 200 )
          => LET id == req'[r].id
                 w == req'[r].body.winnerMoney
             IN /\ id \in DOMAIN games /\ id \in DOMAIN games'
                /\ games'[id].winnermoney = w
                /\ games'[id].profit = games'[id].pot - w
                /\ ( /\ games[id].winnermoney = w
                     /\ games[id].profit = games[id].pot - w ) => games' = games
     /\ \A g \in DOMAIN games :
          g \in DOMAIN games' => games'[g].pot = games[g].pot]_vars

\* two endGame calls on one game with different amounts have both completed
C31_Witness ==
  \E r1, r2 \in Reqs :
    /\ r1 # r2
    /\ req[r1].op = "endGame" /\ req[r1].pc = "done" /\ req[r1].code = 200
    /\ req[r2].op = "endGame" /\ req[r2].pc = "done" /\ req[r2].code = 200
    /\ req[r1].id = req[r2].id
    /\ req[r1].body.winnerMoney # req[r2].body.winnerMoney
    /\ req[r1].id \in DOMAIN games
    /\ games[req[r1].id].winnermoney \in
         {req[r1].body.winnerMoney, req[r2].body.winnerMoney}

\* the configuration snapshot of a game row
Snapshot(row) ==
  <<row.agentid, row.ownerid, row.players, row.pot, row.entryfee, row.winmode,
    row.cartelas, row.date>>

\* the settlement fields of a game row
Settlement(row) == <<row.winnermoney, row.profit, row.status>>

\* request r takes a step of one of the three operations on games
ActsOnGame(r) ==
  /\ req'[r] # req[r]
  /\ req'[r].op \in {"recordCalled", "finish", "endGame"}

\* C32: recordCalled, finish and endGame leave every game's agent, owner,
\* players, pot, entryfee, win-mode, cartela list and date unchanged;
\* recordCalled also leaves winnermoney, profit and status unchanged; and
\* none of them changes any field of a game other than the one it names.
C32_SnapshotIsFixed ==
  [][\A r \in Reqs :
       ActsOnGame(r) =>
         /\ DOMAIN games' = DOMAIN games
         /\ \A g \in DOMAIN games :
              /\ Snapshot(games'[g]) = Snapshot(games[g])
              /\ req'[r].op = "recordCalled" =>
                   Settlement(games'[g]) = Settlement(games[g])
              /\ g # req'[r].id => games'[g] = games[g]]_vars

\* a game with a configuration of its own has had numbers called, has been
\* finished and ended, next to a game nobody touched
C32_Witness ==
  \E g, h \in DOMAIN games :
    /\ g # h
    /\ games[g].winmode = "line" /\ games[g].pot = 5
    /\ games[g].called = <<7, 5>>
    /\ games[g].status = "completed"
    /\ games[g].winnermoney = 3
    /\ games[h].called = <<>> /\ games[h].winnermoney = 0

\* C33: a recordCalled request that carries no verified bearer credential
\* is rejected and leaves every game record unchanged.
C33_CalledNeedsCredential ==
  [][\A r \in Reqs :
       ( /\ Arrives(r)
         /\ req'[r].op = "recordCalled"
         /\ \/ req'[r].cred.hdr # "bearer"
            \/ ~JwtVerify(req'[r].cred) )
       => /\ req'[r].pc = "done"
          /\ req'[r].code # 200
          /\ games' = games]_vars

\* what the gateway's decision is made of: the token verifies and carries
\* the role the operation asks for
Authorizes(cred, role) ==
  /\ cred.hdr = "bearer"
  /\ JwtVerify(cred)
  /\ cred.role = role

\* C34: the gateway's decision depends on the presented token and the
\* required role alone, never on the users table: a request is turned away by
\* the gateway exactly when its token does not verify or carries another
\* role, so the token of an account that was blocked or deleted since it was
\* issued still authorizes.
C34_GatewayIgnoresUserStore ==
  [][\A r \in Reqs :
       ( /\ Arrives(r)
         /\ req'[r].op \in {"createGame", "allGames", "setActive", "deleteAgent"} )
       => ( req'[r].err = "gateway"
            <=> ~Authorizes(req'[r].cred, RequiredRole(req'[r].op)) )]_vars

\* the agent's token has passed the gateway of createGame after the agent's
\* account was blocked or deleted
C34_Witness ==
  \E r \in Reqs :
    /\ req[r].op = "createGame"
    /\ req[r].cred = Bearer(2, "agent")
    /\ req[r].pc = "done" /\ req[r].code = 200
    /\ req[r].gameId \in DOMAIN games
    /\ \/ 2 \notin DOMAIN users
       \/ ~users[2].isactive

\* C35: under any interleaving of createGame and deleteAgent requests, every
\* game's agent reference identifies a user with role agent.
C35_GameAgentExists ==
  \A g \in DOMAIN games : games[g].agentid \in Agents

\* C36: every successful setActive toggle inverts the flag that is stored
\* when it writes, so two toggles of one agent, however their read and write
\* steps interleave, leave the flag as it was before both.
C36_TogglesCancelOut ==
  [][\A r \in Reqs :
       ( /\ req'[r].op = "setActive"
         /\ Completes(r)
         /\ req'[r].code = 200 )
       => /\ req'[r].id \in DOMAIN users
          /\ users'[req'[r].id].isactive = ~users[req'[r].id].isactive]_vars

\* some agent's token passes the gateway of createGame
AgentIsAuthenticated == \E t \in tokens : t.role = "agent"

\* C37: from an empty users table on, whenever an agent account exists an
\* owner account exists too, and whenever an agent's token passes the gateway
\* of createGame the owner lookup finds an owner: the "No owner found" branch
\* cannot be taken.
C37_AgentsImplyOwner ==
  /\ Agents # {} => Owners # {}
  /\ AgentIsAuthenticated => Owners # {}
  /\ \A r \in Reqs :
       req[r].op = "createGame" => req[r].err # "No owner found in database"

\* the registered agent has logged in and created a game
C37_Witness ==
  /\ Agents # {}
  /\ AgentIsAuthenticated
  /\ \E r \in Reqs :
       /\ req[r].op = "createGame" /\ req[r].pc = "done" /\ req[r].code = 200
       /\ req[r].cred.id \in Agents

====
